---- MODULE Spec2Model ----
(***************************************************************************)
(* Model of src/src/api.js: a client of the Cloudways HTTP API.            *)
(*                                                                         *)
(* One caller runs one exported operation at a time (getAccessToken,       *)
(* executeVarnishAction, waitForCompletion).  Every step of the model is   *)
(* the code that runs between two awaits: the call up to its first await,  *)
(* the timer of sleep() firing, a response arriving, a fetch rejecting.    *)
(* The provider is the environment: it chooses each response body, or      *)
(* makes the fetch fail at the transport layer.                            *)
(*                                                                         *)
(* JavaScript values are records [type, v]; v is the value's text, so      *)
(* that ToString and the JSON text of a value are real conversions.        *)
(* Response bodies are JSON objects (the provider's wire contract); a      *)
(* field the body does not carry reads as undefined, as in JavaScript.     *)
(***************************************************************************)
EXTENDS Integers, Sequences, FiniteSets, TLC

VARIABLES
    pc,             \* where the caller is: "idle", the await it is suspended on, or "done"
    op,             \* the exported operation in progress
    request,        \* the last HTTP request handed to fetch
    posts,          \* POST requests sent by the current call
    fetches,        \* GET /operation/{id} requests sent by the current call
    data,           \* the decoded body of the last POST response
    status,         \* the decoded body of the last status response
    argMaxAttempts, \* waitForCompletion's maxAttempts argument, as passed
    argInterval,    \* waitForCompletion's interval argument, as passed
    operationId,    \* waitForCompletion's operationId argument
    attempt,        \* checkOperationUntilComplete's attempt parameter
    maxAttempts,    \* checkOperationUntilComplete's maxAttempts parameter
    interval,       \* checkOperationUntilComplete's interval parameter
    sleeps,         \* suspensions (sleep timers fired) in the current call
    elapsed,        \* milliseconds spent in those suspensions
    markers,        \* progress markers written to stdout by the current call
    absentSeen,     \* status responses received without an operation field
    pendingSeen,    \* status responses received with an operation not completed
    completedSeen,  \* status responses received with is_completed: true
    failed,         \* a fetch of the current call was rejected by the transport
    result          \* how the call ended: nothing yet, a returned value, a thrown Error

vars == <<pc, op, request, posts, fetches, data, status, argMaxAttempts,
          argInterval, operationId, attempt, maxAttempts, interval, sleeps,
          elapsed, markers, absentSeen, pendingSeen, completedSeen, failed,
          result>>

-----------------------------------------------------------------------------
(* Bounds of the model *)

\* largest maxAttempts argument a caller passes
MaxAttemptsArg == 3

\* largest interval argument (milliseconds) a caller passes
MaxIntervalArg == 2

-----------------------------------------------------------------------------
(* Program constants *)

API_BASE == "https://api.cloudways.com/api/v1"

DefaultMaxAttempts == 30

DefaultInterval == 5000

-----------------------------------------------------------------------------
(* JavaScript values *)

Undef == [type |-> "undefined", v |-> "undefined"]

Null == [type |-> "null", v |-> "null"]

Bool(b) == [type |-> "boolean", v |-> IF b THEN "true" ELSE "false"]

Str(s) == [type |-> "string", v |-> s]

Num(s) == [type |-> "number", v |-> s]

\* ToBoolean: what `!x`, `x || y` and `if (x)` test
Truthy(x) ==
    CASE x.type = "undefined" -> FALSE
      [] x.type = "null"      -> FALSE
      [] x.type = "boolean"   -> x.v = "true"
      [] x.type = "number"    -> x.v \notin {"0", "NaN"}
      [] x.type = "string"    -> x.v # ""
      [] OTHER                -> TRUE

\* x === y
StrictEq(x, y) == x.type = y.type /\ x.v = y.v

\* `${x}` inside a template literal
TemplateString(x) == x.v

\* the JSON text of a value: strings are quoted, NaN becomes null
JSONValue(x) ==
    CASE x.type = "string"                -> "\"" \o x.v \o "\""
      [] x.type = "number" /\ x.v = "NaN" -> "null"
      [] OTHER                            -> x.v

\* JSON.stringify of an object: the members whose value is not undefined
JSONstringify(obj) ==
    { <<k, JSONValue(obj[k])>> : k \in { f \in DOMAIN obj : obj[f].type # "undefined" } }

\* a numeric argument of a call: omitted, or the number passed
Omitted == [given |-> FALSE, n |-> 0]

Passed(n) == [given |-> TRUE, n |-> n]

\* arg || dflt, for an omitted or non-negative numeric argument
OrDefault(arg, dflt) == IF arg.given /\ arg.n # 0 THEN arg.n ELSE dflt

-----------------------------------------------------------------------------
(* parseInt(serverId, 10) on a string given as its characters *)

Digits == {"0", "1", "2", "3", "4", "5", "6", "7", "8", "9"}

RECURSIVE LeadingDigits(_)
LeadingDigits(s) ==
    IF s = <<>> \/ Head(s) \notin Digits THEN <<>>
    ELSE <<Head(s)>> \o LeadingDigits(Tail(s))

RECURSIVE StripZeros(_)
StripZeros(s) ==
    IF Len(s) > 1 /\ Head(s) = "0" THEN StripZeros(Tail(s)) ELSE s

RECURSIVE Join(_)
Join(s) == IF s = <<>> THEN "" ELSE Head(s) \o Join(Tail(s))

parseInt(s) ==
    LET d == LeadingDigits(s)
    IN  IF d = <<>> THEN Num("NaN") ELSE Num(Join(StripZeros(d)))

-----------------------------------------------------------------------------
(* What the environment supplies *)

Emails == {"dev@example.com"}

ApiKeys == {"key"}

Tokens == {"tok"}

OperationIds == {"596283"}

Actions == {"flush_all", "list_backends"}

ServerIds == { <<"4", "2">>, <<"0", "7">>, <<"7", "x">>, <<"x", "1">>, <<>> }

Body(access_token, st, message, operation_id) ==
    [access_token |-> access_token, status |-> st, message |-> message,
     operation_id |-> operation_id]

NoData == Body(Undef, Undef, Undef, Undef)

\* bodies the token endpoint may answer with
TokenResponses ==
    { Body(t, Undef, m, Undef) :
        t \in {Undef, Null, Str(""), Str("tok"), Num("0"), Num("1"), Bool(FALSE)},
        m \in {Undef, Str("invalid credentials")} }

\* bodies the varnish endpoint may answer with
VarnishResponses ==
    { Body(Undef, s, m, o) :
        s \in {Undef, Null, Bool(TRUE), Bool(FALSE), Str("pending"), Str("true"),
               Num("0"), Num("1")},
        m \in {Undef, Null, Str(""), Str("Server not found")},
        o \in {Undef, Num("596283")} }

\* the operation member of a status body; present = FALSE when the body has none
NoOperation == [present |-> FALSE, is_completed |-> Undef, message |-> Undef]

Operations ==
    { [present |-> TRUE, is_completed |-> c, message |-> m] :
        c \in {Undef, Bool(FALSE), Bool(TRUE)},
        m \in {Undef, Str("Process is initiated")} }

StatusResponses == { [operation |-> o] : o \in Operations \cup {NoOperation} }

NoStatus == [operation |-> NoOperation]

MaxAttemptsArgs == {Omitted} \cup { Passed(n) : n \in 0..MaxAttemptsArg }

IntervalArgs == {Omitted} \cup { Passed(n) : n \in 0..MaxIntervalArg }

-----------------------------------------------------------------------------
(* Results of a call *)

NoRequest == [method |-> "", url |-> "", authorization |-> "", body |-> {}]

NoResult ==
    [kind |-> "none", prefix |-> "", text |-> "", json |-> {}, attempts |-> 0,
     id |-> "", value |-> Undef, object |-> {}, operation |-> NoOperation]

Thrown(prefix, text, json, attempts, id) ==
    [NoResult EXCEPT !.kind = "throw", !.prefix = prefix, !.text = text,
                     !.json = json, !.attempts = attempts, !.id = id]

\* the rejection of fetch() or of response.json(), passed on by the await
TransportFailure == Thrown("fetch failed", "", {}, 0, "")

-----------------------------------------------------------------------------
(* getAccessToken *)

AuthPrefix == "Failed to obtain access token: "

\* a variant that only asks whether the field is there
HasToken_Defined(d) == d.access_token.type # "undefined"

\* the test of `if (!data.access_token)`, negated
HasToken(d) == Truthy(d.access_token)

\* getAccessToken up to `await fetch(...)`
CallGetAccessToken(email, apiKey) ==
    /\ pc = "idle"
    /\ pc' = "getAccessToken"
    /\ op' = "getAccessToken"
    /\ request' = [method |-> "POST",
                   url |-> API_BASE \o "/oauth/access_token",
                   authorization |-> "",
                   body |-> JSONstringify([email |-> Str(email), api_key |-> Str(apiKey)])]
    /\ posts' = posts + 1
    /\ UNCHANGED <<fetches, data, status, argMaxAttempts, argInterval, operationId,
                   attempt, maxAttempts, interval, sleeps, elapsed, markers,
                   absentSeen, pendingSeen, completedSeen, failed, result>>

\* getAccessToken from `await response.json()` to its end
GetAccessTokenResponse(d) ==
    /\ pc = "getAccessToken"
    /\ data' = d
    /\ result' = IF HasToken(d)
                 THEN [NoResult EXCEPT !.kind = "return", !.value = d.access_token]
                 ELSE Thrown(AuthPrefix, "", JSONstringify(d), 0, "")
    /\ pc' = "done"
    /\ UNCHANGED <<op, request, posts, fetches, status, argMaxAttempts, argInterval,
                   operationId, attempt, maxAttempts, interval, sleeps, elapsed,
                   markers, absentSeen, pendingSeen, completedSeen, failed>>

-----------------------------------------------------------------------------
(* executeVarnishAction *)

OperationPrefix == "Operation failed: "

UnexpectedPrefix == "Unexpected response: "

\* a variant with a loose test, `!data.status`
IsFailure_Falsy(d) == ~Truthy(d.status)

\* `data.status === false`
IsFailure(d) == StrictEq(d.status, Bool(FALSE))

\* `data.status === true`
IsSuccess(d) == StrictEq(d.status, Bool(TRUE))

\* a variant with `??` in place of `||`
ErrorMsg_Nullish(d) ==
    IF d.message.type \notin {"undefined", "null"} THEN d.message ELSE Str("Unknown error")

\* `data.message || 'Unknown error'`
ErrorMsg(d) == IF Truthy(d.message) THEN d.message ELSE Str("Unknown error")

\* a variant that passes the response's operation id on
Completed_WithId(d) ==
    { <<"completed", Bool(TRUE)>> } \cup
    (IF d.operation_id.type # "undefined" THEN { <<"operation_id", d.operation_id>> } ELSE {})

\* the object of `return { completed: true }`
Completed(d) == { <<"completed", Bool(TRUE)>> }

\* executeVarnishAction up to `await fetch(endpoint, ...)`
CallExecuteVarnishAction(token, serverId, action) ==
    /\ pc = "idle"
    /\ pc' = "executeVarnishAction"
    /\ op' = "executeVarnishAction"
    /\ request' = [method |-> "POST",
                   url |-> API_BASE \o "/service/varnish",
                   authorization |-> "Bearer " \o token,
                   body |-> JSONstringify([server_id |-> parseInt(serverId),
                                           action |-> Str(action)])]
    /\ posts' = posts + 1
    /\ UNCHANGED <<fetches, data, status, argMaxAttempts, argInterval, operationId,
                   attempt, maxAttempts, interval, sleeps, elapsed, markers,
                   absentSeen, pendingSeen, completedSeen, failed, result>>

\* executeVarnishAction from `await response.json()` to its end
ExecuteVarnishActionResponse(d) ==
    /\ pc = "executeVarnishAction"
    /\ data' = d
    /\ result' = IF IsFailure(d)
                 THEN Thrown(OperationPrefix, TemplateString(ErrorMsg(d)), {}, 0, "")
                 ELSE IF IsSuccess(d)
                 THEN [NoResult EXCEPT !.kind = "return", !.object = Completed(d)]
                 ELSE Thrown(UnexpectedPrefix, "", JSONstringify(d), 0, "")
    /\ pc' = "done"
    /\ UNCHANGED <<op, request, posts, fetches, status, argMaxAttempts, argInterval,
                   operationId, attempt, maxAttempts, interval, sleeps, elapsed,
                   markers, absentSeen, pendingSeen, completedSeen, failed>>

-----------------------------------------------------------------------------
(* waitForCompletion, checkOperationUntilComplete, checkOperationStatus *)

TimeoutPrefix == "Operation timed out after "

\* a variant that is off by one, `attempt >= maxAttempts`
TimedOut_OffByOne(a, m) == a >= m

\* `if (attempt > maxAttempts)`
TimedOut(a, m) == a > m

\* a variant without the inner test
IsCompleted_AnyOperation(s) == s.operation.present

\* a variant that takes a body without operation for a finished one
IsCompleted_OrAbsent(s) == ~s.operation.present \/ Truthy(s.operation.is_completed)

\* `if (status.operation) { if (status.operation.is_completed) {`
IsCompleted(s) == s.operation.present /\ Truthy(s.operation.is_completed)

\* a variant that writes nothing
WriteMarker_Silent(n) == n

\* `process.stdout.write('.')`
WriteMarker(n) == n + 1

\* a variant that catches the rejection and counts it as an attempt
OnRejected_Retry(a, n) ==
    [pc |-> "sleep", attempt |-> a + 1, markers |-> n + 1, kind |-> "none"]

\* the await of a rejected checkOperationStatus: nothing catches it, so the
\* call ends there with the attempt counter and the markers as they were
OnRejected(a, n) == [pc |-> "done", attempt |-> a, markers |-> n, kind |-> "throw"]

\* checkOperationUntilComplete from its entry to `await sleep(interval)`
Enter(a, m, id) ==
    IF TimedOut(a, m)
    THEN /\ pc' = "done"
         /\ result' = Thrown(TimeoutPrefix, "", {}, m, id)
    ELSE /\ pc' = "sleep"
         /\ result' = NoResult

\* waitForCompletion up to the first `await sleep(interval)`
CallWaitForCompletion(token, id, maxArg, intervalArg) ==
    /\ pc = "idle"
    /\ op' = "waitForCompletion"
    /\ argMaxAttempts' = maxArg
    /\ argInterval' = intervalArg
    /\ operationId' = id
    /\ maxAttempts' = OrDefault(maxArg, DefaultMaxAttempts)
    /\ interval' = OrDefault(intervalArg, DefaultInterval)
    /\ attempt' = 1
    /\ request' = [NoRequest EXCEPT !.authorization = "Bearer " \o token]
    /\ Enter(1, OrDefault(maxArg, DefaultMaxAttempts), id)
    /\ UNCHANGED <<posts, fetches, data, status, sleeps, elapsed, markers,
                   absentSeen, pendingSeen, completedSeen, failed>>

\* the timer of sleep(interval) fires; checkOperationStatus sends its GET
SleepResolves ==
    /\ pc = "sleep"
    /\ sleeps' = sleeps + 1
    /\ elapsed' = elapsed + interval
    /\ request' = [request EXCEPT !.method = "GET",
                                  !.url = API_BASE \o "/operation/" \o operationId]
    /\ fetches' = fetches + 1
    /\ pc' = "checkOperationStatus"
    /\ UNCHANGED <<op, posts, data, status, argMaxAttempts, argInterval, operationId,
                   attempt, maxAttempts, interval, markers, absentSeen, pendingSeen,
                   completedSeen, failed, result>>

\* the status arrives: return the operation, or write a marker and recurse
\* with attempt + 1 up to the next `await sleep(interval)`
StatusResponse(s) ==
    /\ pc = "checkOperationStatus"
    /\ status' = s
    /\ absentSeen' = absentSeen + (IF s.operation.present THEN 0 ELSE 1)
    /\ pendingSeen' = pendingSeen +
          (IF s.operation.present /\ s.operation.is_completed # Bool(TRUE) THEN 1 ELSE 0)
    /\ completedSeen' = completedSeen +
          (IF s.operation.present /\ s.operation.is_completed = Bool(TRUE) THEN 1 ELSE 0)
    /\ IF IsCompleted(s)
       THEN /\ pc' = "done"
            /\ result' = [NoResult EXCEPT !.kind = "return", !.operation = s.operation]
            /\ UNCHANGED <<markers, attempt>>
       ELSE /\ markers' = WriteMarker(markers)
            /\ attempt' = attempt + 1
            /\ Enter(attempt + 1, maxAttempts, operationId)
    /\ UNCHANGED <<op, request, posts, fetches, data, argMaxAttempts, argInterval,
                   operationId, maxAttempts, interval, sleeps, elapsed, failed>>

\* fetch() or response.json() rejects inside checkOperationStatus
StatusFetchRejected ==
    /\ pc = "checkOperationStatus"
    /\ failed' = TRUE
    /\ LET r == OnRejected(attempt, markers)
       IN  /\ pc' = r.pc
           /\ attempt' = r.attempt
           /\ markers' = r.markers
           /\ result' = IF r.kind = "throw" THEN TransportFailure ELSE NoResult
    /\ UNCHANGED <<op, request, posts, fetches, data, status, argMaxAttempts,
                   argInterval, operationId, maxAttempts, interval, sleeps, elapsed,
                   absentSeen, pendingSeen, completedSeen>>

\* fetch() or response.json() rejects inside getAccessToken or executeVarnishAction
PostRejected ==
    /\ pc \in {"getAccessToken", "executeVarnishAction"}
    /\ failed' = TRUE
    /\ result' = TransportFailure
    /\ pc' = "done"
    /\ UNCHANGED <<op, request, posts, fetches, data, status, argMaxAttempts,
                   argInterval, operationId, attempt, maxAttempts, interval, sleeps,
                   elapsed, markers, absentSeen, pendingSeen, completedSeen>>

-----------------------------------------------------------------------------
(* The caller *)

Init ==
    /\ pc = "idle"
    /\ op = "none"
    /\ request = NoRequest
    /\ posts = 0
    /\ fetches = 0
    /\ data = NoData
    /\ status = NoStatus
    /\ argMaxAttempts = Omitted
    /\ argInterval = Omitted
    /\ operationId = ""
    /\ attempt = 0
    /\ maxAttempts = 0
    /\ interval = 0
    /\ sleeps = 0
    /\ elapsed = 0
    /\ markers = 0
    /\ absentSeen = 0
    /\ pendingSeen = 0
    /\ completedSeen = 0
    /\ failed = FALSE
    /\ result = NoResult

\* the caller takes the result; the next call starts from a clean slate
\* (no operation keeps state between calls)
Settle ==
    /\ pc = "done"
    /\ pc' = "idle"
    /\ op' = "none"
    /\ request' = NoRequest
    /\ posts' = 0
    /\ fetches' = 0
    /\ data' = NoData
    /\ status' = NoStatus
    /\ argMaxAttempts' = Omitted
    /\ argInterval' = Omitted
    /\ operationId' = ""
    /\ attempt' = 0
    /\ maxAttempts' = 0
    /\ interval' = 0
    /\ sleeps' = 0
    /\ elapsed' = 0
    /\ markers' = 0
    /\ absentSeen' = 0
    /\ pendingSeen' = 0
    /\ completedSeen' = 0
    /\ failed' = FALSE
    /\ result' = NoResult

Next ==
    \/ \E e \in Emails, k \in ApiKeys : CallGetAccessToken(e, k)
    \/ \E d \in TokenResponses : GetAccessTokenResponse(d)
    \/ \E t \in Tokens, s \in ServerIds, a \in Actions : CallExecuteVarnishAction(t, s, a)
    \/ \E d \in VarnishResponses : ExecuteVarnishActionResponse(d)
    \/ \E t \in Tokens, id \in OperationIds, m \in MaxAttemptsArgs, i \in IntervalArgs :
          CallWaitForCompletion(t, id, m, i)
    \/ SleepResolves
    \/ \E s \in StatusResponses : StatusResponse(s)
    \/ StatusFetchRejected
    \/ PostRejected
    \/ Settle

Spec == Init /\ [][Next]_vars

-----------------------------------------------------------------------------
(* Properties *)

Waiting == op = "waitForCompletion"

Executed == op = "executeVarnishAction" /\ pc = "done" /\ ~failed

Authenticated == op = "getAccessToken" /\ pc = "done" /\ ~failed

ThrewTimeout == result.kind = "throw" /\ result.prefix = TimeoutPrefix

\* status responses received so far that did not report a completed operation
Unsuccessful == absentSeen + pendingSeen

\* the token values JavaScript takes for false
FalsyValues == {Undef, Null, Str(""), Num("0"), Num("NaN"), Bool(FALSE)}

\* C1: with maxAttempts = N >= 1 and no status response reporting a completed
\* operation, the wait ends only by the timeout error, after exactly N status
\* fetches, each preceded by one suspension of the interval, and the error
\* names the operation id and the attempt count N.
Thm_C1 ==
    (Waiting /\ argMaxAttempts.given /\ argMaxAttempts.n >= 1
             /\ completedSeen = 0 /\ ~failed) =>
        /\ sleeps = fetches
        /\ elapsed = fetches * interval
        /\ fetches <= argMaxAttempts.n
        /\ pc # "done" => result.kind = "none"
        /\ pc = "done" =>
              /\ ThrewTimeout
              /\ fetches = argMaxAttempts.n
              /\ result.attempts = argMaxAttempts.n
              /\ result.id = operationId

Witness_C1 ==
    /\ Waiting /\ pc = "done" /\ ThrewTimeout
    /\ argMaxAttempts.given /\ argMaxAttempts.n >= 2
    /\ fetches = argMaxAttempts.n /\ completedSeen = 0

Claim_C3 ==
    (Executed /\ data.status = Bool(FALSE)) =>
        /\ result.kind = "throw" /\ result.prefix = OperationPrefix
        /\ data.message.type = "string" => result.text = data.message.v
        /\ data.message = Undef => result.text = "Unknown error"

\* C3 amended: with status === false the call throws "Operation failed: "
\* followed by the response's message when that is a non-empty (truthy)
\* value, and by "Unknown error" when it is absent, null or the empty string.
Thm_C3 ==
    (Executed /\ data.status = Bool(FALSE)) =>
        /\ result.kind = "throw" /\ result.prefix = OperationPrefix
        /\ result.text = IF data.message \in FalsyValues THEN "Unknown error"
                         ELSE data.message.v

Witness_C3 ==
    /\ Executed /\ data.status = Bool(FALSE)
    /\ data.message = Str("") /\ result.text = "Unknown error"

\* C4: with status === true the call returns exactly {completed: true}, with
\* no operation id, whatever else the response carries, after one POST and
\* no status fetch.
Thm_C4 ==
    (Executed /\ data.status = Bool(TRUE)) =>
        /\ result.kind = "return"
        /\ result.object = { <<"completed", Bool(TRUE)>> }
        /\ posts = 1 /\ fetches = 0 /\ request.method = "POST"

Witness_C4 ==
    /\ Executed /\ data.status = Bool(TRUE) /\ result.kind = "return"
    /\ data.operation_id # Undef /\ data.message # Undef

\* C5: with a status that is neither the boolean true nor the boolean false
\* the call throws "Unexpected response: " with the raw body; it neither
\* returns nor throws "Operation failed: ".
Thm_C5 ==
    (Executed /\ data.status \notin {Bool(TRUE), Bool(FALSE)}) =>
        /\ result.kind = "throw" /\ result.prefix = UnexpectedPrefix
        /\ result.json = JSONstringify(data)
        /\ data.status # Undef => <<"status", JSONValue(data.status)>> \in result.json

Witness_C5 ==
    /\ Executed /\ data.status = Str("true")
    /\ result.prefix = UnexpectedPrefix
    /\ <<"status", "\"true\"">> \in result.json

Thm_C7 ==
    (Waiting /\ ~failed) =>
        /\ pc \in {"sleep", "checkOperationStatus"} =>
              /\ attempt = Unsuccessful + 1
              /\ result.kind = "none"
        /\ result.kind = "throw" =>
              /\ ThrewTimeout
              /\ attempt > maxAttempts
              /\ fetches = maxAttempts
              /\ Unsuccessful = maxAttempts
        /\ result.kind = "return" => status.operation.present

Witness_C7 ==
    /\ Waiting /\ pc = "done" /\ ThrewTimeout
    /\ absentSeen >= 1 /\ pendingSeen >= 1

\* C8: the markers written equal the status responses received so far that
\* did not report completion; a wait that returns on attempt k has written
\* k - 1 markers, one that times out has written maxAttempts markers.
Thm_C8 ==
    Waiting =>
        /\ markers = Unsuccessful
        /\ result.kind = "return" => markers = fetches - 1
        /\ ThrewTimeout => markers = maxAttempts

Witness_C8 ==
    /\ Waiting /\ pc = "done" /\ result.kind = "return"
    /\ fetches = 3 /\ markers = 2

\* C9 as stated: for every maxAttempts value the caller passes, 0 included,
\* the status requests made never exceed it.
Claim_C9 ==
    (Waiting /\ argMaxAttempts.given) => fetches <= argMaxAttempts.n

\* C10: a transport failure of the status fetch on attempt k ends the wait at
\* once with that failure: no marker for the attempt, the attempt not counted
\* as an unsuccessful one, no further suspension or fetch, no timeout error.
Thm_C10 ==
    (Waiting /\ failed) =>
        /\ pc = "done"
        /\ result = TransportFailure
        /\ attempt = fetches
        /\ sleeps = fetches
        /\ markers = fetches - 1
        /\ Unsuccessful = fetches - 1

Witness_C10 ==
    /\ Waiting /\ failed /\ pc = "done"
    /\ fetches = 2 /\ fetches < maxAttempts

====
